---- MODULE Spec2Model ----
(***************************************************************************)
(* Model of main.py: the in-memory user store (fake_users_db and           *)
(* user_id_counter) and the six request handlers that read and write it.   *)
(* Every request is handled to completion before the next one starts, so   *)
(* each handler is one atomic action.  The payload of create and update is *)
(* the validated UserCreate object the handler receives.                   *)
(***************************************************************************)
EXTENDS Integers, Sequences, FiniteSets, TLC

(* ---------------- bounds of the model ---------------- *)

\* the largest id create_user assigns in the model: a create that would push
\* user_id_counter past MaxId + 1 is not taken
MaxId == 2
\* the values requests choose from
Usernames == {"alice", "bob"}
Emails == {"alice@example.com", "bob@example.com"}
\* Python's None for the optional full_name
None == "None"
FullNames == {None, "Alice A"}
Passwords == {"p", "q"}

\* user_id path parameters: every id create can assign, and one it cannot
UserIds == 1..(MaxId + 1)

(* ---------------- data ---------------- *)

\* class UserCreate: the request body of POST /users and PUT /users/{user_id}
UserCreate == [username : Usernames, email : Emails, password : Passwords, full_name : FullNames]

\* response_model=User: FastAPI keeps the fields of class User and drops the rest
User(d) == [id |-> d.id, username |-> d.username, email |-> d.email, full_name |-> d.full_name]

RECURSIVE UserList(_)
UserList(db) == IF db = <<>> THEN <<>> ELSE <<User(Head(db))>> \o UserList(Tail(db))

\* status codes and details of the handlers
HTTP_200 == 200
HTTP_201 == 201
HTTP_400 == 400
HTTP_404 == 404
\* detail "이미 존재하는 사용자명입니다"
USERNAME_EXISTS == "username already exists"
\* detail "이미 존재하는 이메일입니다"
EMAIL_EXISTS == "email already exists"
\* detail "사용자를 찾을 수 없습니다"
USER_NOT_FOUND == "user not found"
\* message "사용자가 성공적으로 삭제되었습니다"
USER_DELETED == "user deleted"
HEALTHY == "healthy"

\* what a handler hands back: the status, the detail of an HTTPException (or the
\* message of root and delete_user), and the User records of the body
Response(status, detail, body) == [status |-> status, detail |-> detail, body |-> body]

VARIABLES
    fake_users_db,      \* the list of stored dicts
    user_id_counter,    \* the next id
    request,            \* the request handled last
    response,           \* its response
    created,            \* history: ids returned by successful creates, in order
    deleted             \* history: ids of successful deletes

vars == <<fake_users_db, user_id_counter, request, response, created, deleted>>

NoUser == [username |-> "", email |-> "", password |-> "", full_name |-> None]
Request(op, user_id, user) == [op |-> op, user_id |-> user_id, user |-> user]

(* ---------------- handlers ---------------- *)

\* GET /
root == Response(HTTP_200, HEALTHY, <<>>)

\* GET /users
get_users(db) == Response(HTTP_200, "", UserList(db))

\* mutant: user_id is taken for the position in the list
get_user_by_position(db, user_id, i) ==
    IF user_id \in DOMAIN db THEN Response(HTTP_200, "", <<User(db[user_id])>>)
    ELSE Response(HTTP_404, USER_NOT_FOUND, <<>>)

\* GET /users/{user_id}: the first dict whose id matches, else 404
RECURSIVE get_user_from(_, _, _)
get_user_from(db, user_id, i) ==
    IF i > Len(db) THEN Response(HTTP_404, USER_NOT_FOUND, <<>>)
    ELSE IF db[i]["id"] = user_id THEN Response(HTTP_200, "", <<User(db[i])>>)
    ELSE get_user_from(db, user_id, i + 1)

get_user(db, user_id) == get_user_from(db, user_id, 1)

\* mutant: the email is compared before the username
RECURSIVE duplicate_check_email_first(_, _, _)
duplicate_check_email_first(db, user, i) ==
    IF i > Len(db) THEN ""
    ELSE IF db[i]["email"] = user.email THEN EMAIL_EXISTS
    ELSE IF db[i]["username"] = user.username THEN USERNAME_EXISTS
    ELSE duplicate_check_email_first(db, user, i + 1)

\* mutant: only the username is compared
RECURSIVE duplicate_check_username_only(_, _, _)
duplicate_check_username_only(db, user, i) ==
    IF i > Len(db) THEN ""
    ELSE IF db[i]["username"] = user.username THEN USERNAME_EXISTS
    ELSE duplicate_check_username_only(db, user, i + 1)

\* create_user's loop: per stored dict, username first, then email; "" when the
\* loop ends without raising
RECURSIVE duplicate_check(_, _, _)
duplicate_check(db, user, i) ==
    IF i > Len(db) THEN ""
    ELSE IF db[i]["username"] = user.username THEN USERNAME_EXISTS
    ELSE IF db[i]["email"] = user.email THEN EMAIL_EXISTS
    ELSE duplicate_check(db, user, i + 1)

\* mutant: full_name is not copied
new_user_no_full_name(counter, user) ==
    [id |-> counter, username |-> user.username, email |-> user.email, full_name |-> None]

\* the dict create_user builds
new_user(counter, user) ==
    [id |-> counter, username |-> user.username, email |-> user.email, full_name |-> user.full_name]

\* mutant: the counter steps back once it is above 1
next_counter_back(counter) == IF counter > 1 THEN counter - 1 ELSE counter + 1

\* mutant: the counter is not advanced
next_counter_stuck(counter) == counter

\* user_id_counter += 1
next_counter(counter) == counter + 1

\* mutant: the new dict is inserted at the front of the list
create_user_prepends(db, counter, user) ==
    LET conflict == duplicate_check(db, user, 1) IN
    IF conflict # ""
    THEN [db |-> db, counter |-> counter, response |-> Response(HTTP_400, conflict, <<>>)]
    ELSE [db |-> <<new_user(counter, user)>> \o db,
          counter |-> next_counter(counter),
          response |-> Response(HTTP_201, "", <<User(new_user(counter, user))>>)]

\* mutant: the counter is advanced before the duplicate check
create_user_counts_rejected(db, counter, user) ==
    LET conflict == duplicate_check(db, user, 1) IN
    IF conflict # ""
    THEN [db |-> db, counter |-> next_counter(counter), response |-> Response(HTTP_400, conflict, <<>>)]
    ELSE [db |-> Append(db, new_user(counter, user)),
          counter |-> next_counter(counter),
          response |-> Response(HTTP_201, "", <<User(new_user(counter, user))>>)]

\* POST /users: the store, the counter and the response after the handler
create_user(db, counter, user) ==
    LET conflict == duplicate_check(db, user, 1) IN
    IF conflict # ""
    THEN [db |-> db, counter |-> counter, response |-> Response(HTTP_400, conflict, <<>>)]
    ELSE [db |-> Append(db, new_user(counter, user)),
          counter |-> next_counter(counter),
          response |-> Response(HTTP_201, "", <<User(new_user(counter, user))>>)]

\* mutant: the password is kept in the stored dict
updated_user_with_password(user_id, user) ==
    [id |-> user_id, username |-> user.username, email |-> user.email,
     full_name |-> user.full_name, password |-> user.password]

\* the dict update_user builds
updated_user(user_id, user) ==
    [id |-> user_id, username |-> user.username, email |-> user.email, full_name |-> user.full_name]

\* mutant: an id that is not stored is inserted
RECURSIVE update_user_upsert(_, _, _, _)
update_user_upsert(db, user_id, user, idx) ==
    IF idx > Len(db)
    THEN [db |-> Append(db, updated_user(user_id, user)), response |-> Response(HTTP_404, USER_NOT_FOUND, <<>>)]
    ELSE IF db[idx]["id"] = user_id
    THEN [db |-> [db EXCEPT ![idx] = updated_user(user_id, user)],
          response |-> Response(HTTP_200, "", <<User(updated_user(user_id, user))>>)]
    ELSE update_user_upsert(db, user_id, user, idx + 1)

\* mutant: the matching dict is removed and the new one appended
RECURSIVE update_user_moves_to_end(_, _, _, _)
update_user_moves_to_end(db, user_id, user, idx) ==
    IF idx > Len(db)
    THEN [db |-> db, response |-> Response(HTTP_404, USER_NOT_FOUND, <<>>)]
    ELSE IF db[idx]["id"] = user_id
    THEN [db |-> Append(SubSeq(db, 1, idx - 1) \o SubSeq(db, idx + 1, Len(db)),
                        updated_user(user_id, user)),
          response |-> Response(HTTP_200, "", <<User(updated_user(user_id, user))>>)]
    ELSE update_user_moves_to_end(db, user_id, user, idx + 1)

\* mutant: the update is refused when another dict has the username or the email
RECURSIVE update_user_checked(_, _, _, _)
update_user_checked(db, user_id, user, idx) ==
    IF idx > Len(db)
    THEN [db |-> db, response |-> Response(HTTP_404, USER_NOT_FOUND, <<>>)]
    ELSE IF db[idx]["id"] = user_id
    THEN IF \E j \in DOMAIN db : j # idx /\ db[j]["username"] = user.username
         THEN [db |-> db, response |-> Response(HTTP_400, USERNAME_EXISTS, <<>>)]
         ELSE IF \E j \in DOMAIN db : j # idx /\ db[j]["email"] = user.email
         THEN [db |-> db, response |-> Response(HTTP_400, EMAIL_EXISTS, <<>>)]
         ELSE [db |-> [db EXCEPT ![idx] = updated_user(user_id, user)],
               response |-> Response(HTTP_200, "", <<User(updated_user(user_id, user))>>)]
    ELSE update_user_checked(db, user_id, user, idx + 1)

\* PUT /users/{user_id}: the first dict whose id matches is replaced in place
RECURSIVE update_user_from(_, _, _, _)
update_user_from(db, user_id, user, idx) ==
    IF idx > Len(db)
    THEN [db |-> db, response |-> Response(HTTP_404, USER_NOT_FOUND, <<>>)]
    ELSE IF db[idx]["id"] = user_id
    THEN [db |-> [db EXCEPT ![idx] = updated_user(user_id, user)],
          response |-> Response(HTTP_200, "", <<User(updated_user(user_id, user))>>)]
    ELSE update_user_from(db, user_id, user, idx + 1)

update_user(db, user_id, user) == update_user_from(db, user_id, user, 1)

\* mutant: the element after idx is removed
pop_off_by_one(db, idx) == SubSeq(db, 1, idx) \o SubSeq(db, idx + 2, Len(db))

\* mutant: pop() without the index removes the last element
pop_last(db, idx) == SubSeq(db, 1, Len(db) - 1)

\* list.pop(idx), idx counted from 1
pop(db, idx) == SubSeq(db, 1, idx - 1) \o SubSeq(db, idx + 1, Len(db))

\* mutant: when no id matches, the last element is removed before the 404
RECURSIVE delete_user_pops_last(_, _, _)
delete_user_pops_last(db, user_id, idx) ==
    IF idx > Len(db)
    THEN [db |-> SubSeq(db, 1, Len(db) - 1), response |-> Response(HTTP_404, USER_NOT_FOUND, <<>>)]
    ELSE IF db[idx]["id"] = user_id
    THEN [db |-> pop(db, idx), response |-> Response(HTTP_200, USER_DELETED, <<>>)]
    ELSE delete_user_pops_last(db, user_id, idx + 1)

\* DELETE /users/{user_id}: the first dict whose id matches is removed
RECURSIVE delete_user_from(_, _, _)
delete_user_from(db, user_id, idx) ==
    IF idx > Len(db)
    THEN [db |-> db, response |-> Response(HTTP_404, USER_NOT_FOUND, <<>>)]
    ELSE IF db[idx]["id"] = user_id
    THEN [db |-> pop(db, idx), response |-> Response(HTTP_200, USER_DELETED, <<>>)]
    ELSE delete_user_from(db, user_id, idx + 1)

delete_user(db, user_id) == delete_user_from(db, user_id, 1)

(* ---------------- the state machine ---------------- *)

Init ==
    /\ fake_users_db = <<>>
    /\ user_id_counter = 1
    /\ request = Request("start", 0, NoUser)
    /\ response = Response(HTTP_200, "", <<>>)
    /\ created = <<>>
    /\ deleted = {}

Root ==
    /\ request' = Request("root", 0, NoUser)
    /\ response' = root
    /\ UNCHANGED <<fake_users_db, user_id_counter, created, deleted>>

GetUsers ==
    /\ request' = Request("get_users", 0, NoUser)
    /\ response' = get_users(fake_users_db)
    /\ UNCHANGED <<fake_users_db, user_id_counter, created, deleted>>

\* mutant: the record that is read is taken out of the store
GetUser_consuming ==
    \E user_id \in UserIds :
        /\ request' = Request("get_user", user_id, NoUser)
        /\ response' = get_user(fake_users_db, user_id)
        /\ fake_users_db' = delete_user(fake_users_db, user_id).db
        /\ UNCHANGED <<user_id_counter, created, deleted>>

GetUser ==
    \E user_id \in UserIds :
        /\ request' = Request("get_user", user_id, NoUser)
        /\ response' = get_user(fake_users_db, user_id)
        /\ UNCHANGED <<fake_users_db, user_id_counter, created, deleted>>

CreateUser ==
    \E user \in UserCreate :
        LET r == create_user(fake_users_db, user_id_counter, user) IN
        /\ r.counter <= MaxId + 1
        /\ request' = Request("create_user", 0, user)
        /\ fake_users_db' = r.db
        /\ user_id_counter' = r.counter
        /\ response' = r.response
        /\ created' = IF r.response.status = HTTP_201
                      THEN Append(created, r.response.body[1].id) ELSE created
        /\ UNCHANGED deleted

UpdateUser ==
    \E user_id \in UserIds, user \in UserCreate :
        LET r == update_user(fake_users_db, user_id, user) IN
        /\ request' = Request("update_user", user_id, user)
        /\ fake_users_db' = r.db
        /\ response' = r.response
        /\ UNCHANGED <<user_id_counter, created, deleted>>

DeleteUser ==
    \E user_id \in UserIds :
        LET r == delete_user(fake_users_db, user_id) IN
        /\ request' = Request("delete_user", user_id, NoUser)
        /\ fake_users_db' = r.db
        /\ response' = r.response
        /\ deleted' = IF r.response.status = HTTP_200 THEN deleted \cup {user_id} ELSE deleted
        /\ UNCHANGED <<user_id_counter, created>>

Next == Root \/ GetUsers \/ GetUser \/ CreateUser \/ UpdateUser \/ DeleteUser

Spec == Init /\ [][Next]_vars

(* ---------------- helpers of the properties ---------------- *)

Indices == DOMAIN fake_users_db
HasUsername(db, u) == \E i \in DOMAIN db : db[i]["username"] = u
HasEmail(db, e) == \E i \in DOMAIN db : db[i]["email"] = e
HasId(db, id) == \E i \in DOMAIN db : db[i]["id"] = id
\* position of the first stored dict with the username / the email, 0 if none
FirstUsername(db, u) ==
    IF HasUsername(db, u) THEN CHOOSE i \in DOMAIN db :
        db[i]["username"] = u /\ \A j \in 1..(i - 1) : db[j]["username"] # u
    ELSE 0
FirstEmail(db, e) ==
    IF HasEmail(db, e) THEN CHOOSE i \in DOMAIN db :
        db[i]["email"] = e /\ \A j \in 1..(i - 1) : db[j]["email"] # e
    ELSE 0
CreateRequested == request.op = "create_user"
Created == CreateRequested /\ response.status = HTTP_201

(* ---------------- C1 ---------------- *)

\* C1: in every reachable state no two stored records have the same username.
\* update_user stores the payload's username without looking at the other
\* records, so this is violated.
C1_UniqueUsernames ==
    \A i, j \in Indices : i # j => fake_users_db[i]["username"] # fake_users_db[j]["username"]

(* ---------------- C2 ---------------- *)

\* C2: in every reachable state no two stored records have the same email.
\* update_user stores the payload's email without looking at the other records,
\* so this is violated.
C2_UniqueEmails ==
    \A i, j \in Indices : i # j => fake_users_db[i]["email"] # fake_users_db[j]["email"]

(* ---------------- C3 ---------------- *)

C4_CreatedIdsIncrease ==
    \A i, j \in DOMAIN created : i < j => created[i] < created[j]

\* two successful creates with a delete of the first id before the second
C4_Witness ==
    /\ Len(created) >= 2
    /\ created[1] \in deleted
    /\ Created

(* ---------------- C5 ---------------- *)

\* C5: in every reachable state no two stored records have the same id.
C5_UniqueIds ==
    \A i, j \in Indices : i # j => fake_users_db[i]["id"] # fake_users_db[j]["id"]

\* two records are stored and the last request was a successful update
C5_Witness ==
    /\ Len(fake_users_db) >= 2
    /\ request.op = "update_user"
    /\ response.status = HTTP_200

(* ---------------- C6 ---------------- *)

\* C6: a create whose username a stored record has while no record has its
\* email, or whose email a stored record has while no record has its username,
\* is rejected with a conflict (400) and leaves the record sequence and the id
\* counter as they were.
C6_SingleConflictRejected ==
    [][ (request'.op = "create_user"
          /\ HasUsername(fake_users_db, request'.user.username)
               # HasEmail(fake_users_db, request'.user.email))
        => /\ response'.status = HTTP_400
           /\ response'.detail \in {USERNAME_EXISTS, EMAIL_EXISTS}
           /\ fake_users_db' = fake_users_db
           /\ user_id_counter' = user_id_counter ]_vars

\* a rejected create whose email is stored and whose username is not
C6_Witness ==
    /\ CreateRequested
    /\ response.status = HTTP_400
    /\ HasEmail(fake_users_db, request.user.email)
    /\ ~HasUsername(fake_users_db, request.user.username)

(* ---------------- C7 ---------------- *)

\* C7: an update for an id no stored record has yields 404 and leaves the
\* record sequence (length, contents, order) and the id counter unchanged.
C7_UpdateMissingId ==
    [][ (request'.op = "update_user" /\ ~HasId(fake_users_db, request'.user_id))
        => /\ response'.status = HTTP_404
           /\ fake_users_db' = fake_users_db
           /\ user_id_counter' = user_id_counter ]_vars

\* an update of an id that is not stored, on a store that is not empty
C7_Witness ==
    /\ request.op = "update_user"
    /\ ~HasId(fake_users_db, request.user_id)
    /\ response.status = HTTP_404
    /\ Len(fake_users_db) >= 1

(* ---------------- C8 ---------------- *)

\* C8: once id i was deleted successfully, in every later state list has no
\* record with id i, and get, update (with any payload) and delete of i yield
\* 404.
C8_DeletedStaysGone ==
    \A i \in deleted :
        /\ \A k \in DOMAIN get_users(fake_users_db).body :
              get_users(fake_users_db).body[k].id # i
        /\ get_user(fake_users_db, i).status = HTTP_404
        /\ \A user \in UserCreate : update_user(fake_users_db, i, user).response.status = HTTP_404
        /\ delete_user(fake_users_db, i).response.status = HTTP_404

\* id 1 was deleted, a later create succeeded, and a get of id 1 was answered
C8_Witness ==
    /\ 1 \in deleted
    /\ Len(created) >= 2
    /\ Len(fake_users_db) >= 1
    /\ request.op = "get_user"
    /\ request.user_id = 1

(* ---------------- C9 ---------------- *)

\* C9: a get of the id a successful create returned, issued right after that
\* create, returns the record with that id and the payload's username, email
\* and full_name, and nothing else (no password).
C9_CreateThenGet ==
    [][ (Created /\ request'.op = "get_user" /\ request'.user_id = response.body[1].id)
        => /\ response'.status = HTTP_200
           /\ response'.body = << [id |-> response.body[1].id,
                                   username |-> request.user.username,
                                   email |-> request.user.email,
                                   full_name |-> request.user.full_name] >> ]_vars

\* a get of the id created last found the record; it has a full_name and is
\* not the first of the store
C9_Witness ==
    /\ request.op = "get_user"
    /\ response.status = HTTP_200
    /\ Len(created) >= 1
    /\ request.user_id = created[Len(created)]
    /\ response.body[1].full_name # None
    /\ Len(fake_users_db) >= 2

(* ---------------- C10 ---------------- *)

\* C10: the id counter starts at 1, grows by exactly 1 on a successful create
\* and is unchanged by every other request; it never decreases.
C10_CounterSteps ==
    /\ user_id_counter = 1
    /\ [][ /\ user_id_counter' =
                IF request'.op = "create_user" /\ response'.status = HTTP_201
                THEN user_id_counter + 1 ELSE user_id_counter
           /\ user_id_counter' >= user_id_counter ]_vars

\* a rejected create after two successful ones
C10_Witness ==
    /\ CreateRequested
    /\ response.status = HTTP_400
    /\ user_id_counter = 3

(* ---------------- C11 ---------------- *)

\* C11: list and get-one leave the record sequence and the id counter as they
\* are, and a read that repeats the read before it (same kind, same id) gets
\* the same response.
C11_ReadsArePure ==
    [][ (request'.op \in {"get_users", "get_user"})
        => /\ fake_users_db' = fake_users_db
           /\ user_id_counter' = user_id_counter
           /\ (request.op = request'.op /\ request.user_id = request'.user_id)
                => response' = response ]_vars

\* a get of a stored id on a store of two records
C11_Witness ==
    /\ request.op = "get_user"
    /\ response.status = HTTP_200
    /\ Len(fake_users_db) = 2
    /\ response.body[1].id = fake_users_db[2]["id"]

(* ---------------- C12 ---------------- *)

\* C12: a request answered with an error (400 on create, 404 on get, update or
\* delete) leaves the record sequence and the id counter as they were; so a
\* step that changes either is answered with 200 or 201.
C12_ErrorsLeaveStore ==
    [][ /\ (response'.status \in {HTTP_400, HTTP_404})
            => (fake_users_db' = fake_users_db /\ user_id_counter' = user_id_counter)
        /\ (fake_users_db' # fake_users_db \/ user_id_counter' # user_id_counter)
            => response'.status \in {HTTP_200, HTTP_201} ]_vars

\* a delete of an id that is not stored, answered 404, on a store that is not
\* empty
C12_Witness ==
    /\ request.op = "delete_user"
    /\ response.status = HTTP_404
    /\ Len(fake_users_db) >= 1
    /\ ~HasId(fake_users_db, request.user_id)

(* ---------------- C13 ---------------- *)

\* C13: a successful update of id i puts the payload's username, email and
\* full_name into the record with id i, keeps that record's id and position,
\* and leaves every other record, the length and the id counter unchanged.
C13_UpdateInPlace ==
    [][ (request'.op = "update_user" /\ response'.status = HTTP_200)
        => /\ Len(fake_users_db') = Len(fake_users_db)
           /\ user_id_counter' = user_id_counter
           /\ HasId(fake_users_db, request'.user_id)
           /\ \A k \in DOMAIN fake_users_db :
                fake_users_db'[k] =
                    IF fake_users_db[k]["id"] = request'.user_id
                    THEN [id |-> fake_users_db[k]["id"],
                          username |-> request'.user.username,
                          email |-> request'.user.email,
                          full_name |-> request'.user.full_name]
                    ELSE fake_users_db[k] ]_vars

\* the first of two records was updated and now differs from the second only
\* by its id
C13_Witness ==
    /\ request.op = "update_user"
    /\ response.status = HTTP_200
    /\ Len(fake_users_db) = 2
    /\ fake_users_db[1]["id"] = request.user_id
    /\ fake_users_db[1]["username"] = fake_users_db[2]["username"]

(* ---------------- C14 ---------------- *)

C15_UpdateNeverRejected ==
    [][ (request'.op = "update_user" /\ HasId(fake_users_db, request'.user_id))
        => response'.status = HTTP_200 ]_vars

\* an update succeeded although the other record has the payload's username
\* and email
C15_Witness ==
    /\ request.op = "update_user"
    /\ response.status = HTTP_200
    /\ \E j \in Indices :
          /\ fake_users_db[j]["id"] # request.user_id
          /\ fake_users_db[j]["username"] = request.user.username
          /\ fake_users_db[j]["email"] = request.user.email

(* ---------------- C16 ---------------- *)

\* C16: get-one answers 404 exactly when no stored record has the id;
\* otherwise it answers 200 with the stored record that has the id, and no
\* other stored record has that id.
C16_GetFindsTheRecord ==
    [][ (request'.op = "get_user")
        => /\ (response'.status = HTTP_404) <=> ~HasId(fake_users_db, request'.user_id)
           /\ HasId(fake_users_db, request'.user_id)
                => /\ response'.status = HTTP_200
                   /\ \E k \in DOMAIN fake_users_db :
                        /\ fake_users_db[k]["id"] = request'.user_id
                        /\ response'.body = <<fake_users_db[k]>>
                        /\ \A j \in DOMAIN fake_users_db :
                             j # k => fake_users_db[j]["id"] # request'.user_id ]_vars

\* a get of id 2 found it at the first place of the store, id 1 being deleted
C16_Witness ==
    /\ request.op = "get_user"
    /\ request.user_id = 2
    /\ response.status = HTTP_200
    /\ Len(fake_users_db) = 1
    /\ 1 \in deleted

(* ---------------- C17 ---------------- *)

UserFields == {"id", "username", "email", "full_name"}
\* the fields that hold strings
TextFields == {"username", "email", "full_name"}
\* the payload with another password
WithPassword(user, p) == [user EXCEPT !.password = p]

\* C17: every stored record has exactly the fields id, username, email and
\* full_name, and so has every record of the last response; no field of a
\* stored record holds a password; and what create and update store and answer
\* does not depend on the payload's password.
C17_PasswordNeverStored ==
    /\ \A k \in Indices :
          /\ DOMAIN fake_users_db[k] = UserFields
          /\ \A f \in TextFields : fake_users_db[k][f] \notin Passwords
    /\ \A k \in DOMAIN response.body :
          /\ DOMAIN response.body[k] = UserFields
          /\ \A f \in TextFields : response.body[k][f] \notin Passwords
    /\ \A user \in UserCreate, p \in Passwords :
          /\ create_user(fake_users_db, user_id_counter, WithPassword(user, p))
               = create_user(fake_users_db, user_id_counter, user)
          /\ \A user_id \in UserIds :
               update_user(fake_users_db, user_id, WithPassword(user, p))
                 = update_user(fake_users_db, user_id, user)

\* a record stored by create and one stored by update, the update's payload
\* having had the password q
C17_Witness ==
    /\ request.op = "update_user"
    /\ request.user.password = "q"
    /\ response.status = HTTP_200
    /\ Len(fake_users_db) = 2
    /\ response.body[1].id = 2

(* ---------------- C18 ---------------- *)

\* C18: the id counter is greater than the id of every stored record and of
\* every record ever created, and at most counter - 1 records are stored.
C18_CounterAboveIds ==
    /\ \A k \in Indices : fake_users_db[k]["id"] < user_id_counter
    /\ \A k \in DOMAIN created : created[k] < user_id_counter
    /\ Len(fake_users_db) <= user_id_counter - 1

\* two ids were handed out, one record was deleted
C18_Witness ==
    /\ user_id_counter = 3
    /\ Len(created) = 2
    /\ Len(fake_users_db) = 1
    /\ request.op = "delete_user"
    /\ response.status = HTTP_200

(* ---------------- C19 ---------------- *)

====
